---------------------------- MODULE Spec2Model ----------------------------
(***************************************************************************)
(* A model of app.py: a FastAPI service that loads config.yaml, loads a    *)
(* GGUF model, registers POST /chat_rhymes and POST /chat_sexy, and runs   *)
(* under uvicorn (python app.py, so __name__ == "__main__").               *)
(*                                                                         *)
(* Python strings are sequences of one-character strings, so that          *)
(* concatenation is \o and str.strip() can be computed.  Route paths,      *)
(* config keys, dictionary keys and program positions are TLA+ strings.    *)
(***************************************************************************)
EXTENDS Integers, Sequences, FiniteSets, TLC

\* Number of HTTP requests that arrive in one behaviour.
MaxRequests == 2

VARIABLES
    pc,                     \* position of the module's top-level code
    configFile,             \* the content of config.yaml on disk
    MODEL_PATH,             \* module global, line 22
    SYSTEM_PROMPT_RHYMES,   \* module global, line 23
    SYSTEM_PROMPT_SEXY,     \* module global, line 24
    model,                  \* module global, line 32
    routes,                 \* app's route table: path -> handler function
    chat,                   \* the module-level name `chat`
    startup,                \* the startup steps taken so far, in order
    arrived,                \* number of requests received so far
    tasks,                  \* request id -> the request and its handler's locals
    lastResponse,           \* the most recent HTTP response and what led to it
    nFailed                 \* number of HTTP 500 responses sent so far

vars == <<pc, configFile, MODEL_PATH, SYSTEM_PROMPT_RHYMES, SYSTEM_PROMPT_SEXY,
          model, routes, chat, startup, arrived, tasks, lastResponse, nFailed>>

-----------------------------------------------------------------------------
(* String literals of the source and of the inputs.                        *)

\* A name that has not been assigned yet; no Python string equals it.
Unbound == <<"unbound">>

Lit_System    == <<"S","y","s","t","e","m",":"," ">>
Lit_Human     == <<"\n","\n","H","u","m","a","n",":"," ">>
Lit_Assistant == <<"\n","\n","A","s","s","i","s","t","a","n","t",":">>
Lit_Stop      == <<"H","u","m","a","n",":">>

\* str(IndexError) for response["choices"][0] on an empty list.
Msg_IndexError == <<"l","i","s","t"," ","i","n","d","e","x"," ","o","u","t"," ",
                    "o","f"," ","r","a","n","g","e">>
Msg_NotFound   == <<"N","o","t"," ","F","o","u","n","d">>
Msg_Required   == <<"F","i","e","l","d"," ","r","e","q","u","i","r","e","d">>

\* Inputs.
Str_Helpful == <<"Y","o","u"," ","a","r","e"," ","h","e","l","p","f","u","l",".">>
Str_Coy     == <<"B","e"," ","c","o","y",".">>
Str_Path    == <<"m",".","g","g","u","f">>
Str_Joke    == <<"T","e","l","l"," ","m","e"," ","a"," ","j","o","k","e">>
Str_Hi      == <<" ","h","i">>
Str_Boom    == <<"b","o","o","m">>

\* The characters str.strip() removes when called without arguments.
Whitespace == {" ", "\t", "\n", "\r", "\f"}

-----------------------------------------------------------------------------
(* config.yaml                                                             *)

FullConfig ==
    [model_path           |-> Str_Path,
     system_prompt_rhymes |-> Str_Helpful,
     system_prompt_sexy   |-> Str_Coy]

\* The dual-prompt keys plus the single-prompt key `system_prompt`.
BothVariantsConfig ==
    [model_path           |-> Str_Path,
     system_prompt        |-> Str_Helpful,
     system_prompt_rhymes |-> Str_Helpful,
     system_prompt_sexy   |-> Str_Coy]

Restrict(f, S) == [k \in S |-> f[k]]

\* What open() + yaml.safe_load() can find: no file, malformed YAML, a YAML
\* document that is not a mapping, or a mapping with some set of keys.
ConfigFiles ==
    {[kind |-> "absent", data |-> <<>>],
     [kind |-> "unparsable", data |-> <<>>],
     [kind |-> "scalar", data |-> <<>>]}
    \cup {[kind |-> "mapping", data |-> Restrict(FullConfig, S)] :
            S \in SUBSET (DOMAIN FullConfig)}
    \cup {[kind |-> "mapping", data |-> BothVariantsConfig],
          [kind |-> "mapping",
           data |-> Restrict(BothVariantsConfig, {"model_path", "system_prompt"})]}

\* config[key] succeeds: the file was read and parsed to a mapping with the key.
HasKey(cfg, key) == cfg.kind = "mapping" /\ key \in DOMAIN cfg.data

-----------------------------------------------------------------------------
(* Module top level: lines 17-40                                           *)

\* Variant: the except clause only prints and execution goes on.
OnConfigErrorContinue == "load_model"

\* Lines 25-27: the except clause of the config block ends in exit().
OnConfigError == "exited"

\* Variant: the except clause only prints and execution goes on.
OnModelErrorContinue == "def_chat_rhymes"

\* Lines 38-40: the except clause of the model block ends in exit().
OnModelError == "exited"

\* Lines 18-27.  The three assignments run in order; the first failing one
\* leaves the later names unassigned and enters the except clause.
LoadConfig ==
    /\ pc = "load_config"
    /\ LET ok1 == HasKey(configFile, "model_path")
           ok2 == ok1 /\ HasKey(configFile, "system_prompt_rhymes")
           ok3 == ok2 /\ HasKey(configFile, "system_prompt_sexy")
       IN  /\ MODEL_PATH' = IF ok1 THEN configFile.data["model_path"] ELSE MODEL_PATH
           /\ SYSTEM_PROMPT_RHYMES' =
                IF ok2 THEN configFile.data["system_prompt_rhymes"]
                       ELSE SYSTEM_PROMPT_RHYMES
           /\ SYSTEM_PROMPT_SEXY' =
                IF ok3 THEN configFile.data["system_prompt_sexy"]
                       ELSE SYSTEM_PROMPT_SEXY
           /\ pc' = IF ok3 THEN "load_model" ELSE OnConfigError
           /\ startup' = Append(startup, IF ok3 THEN "config" ELSE "config_failed")
    /\ UNCHANGED <<configFile, model, routes, chat, arrived, tasks, lastResponse, nFailed>>

\* Lines 31-40.  Llama(model_path=MODEL_PATH, ...) either returns an instance
\* or raises (no such file, not a GGUF file, out of memory, ...).
LoadModel ==
    /\ pc = "load_model"
    /\ \E loaded \in BOOLEAN :
         /\ model' = IF loaded THEN "Llama" ELSE model
         /\ pc' = IF loaded THEN "def_chat_rhymes" ELSE OnModelError
         /\ startup' = Append(startup, IF loaded THEN "model" ELSE "model_failed")
    /\ UNCHANGED <<configFile, MODEL_PATH, SYSTEM_PROMPT_RHYMES, SYSTEM_PROMPT_SEXY,
                   routes, chat, arrived, tasks, lastResponse, nFailed>>

\* Lines 54-55: @app.post("/chat_rhymes") registers the function object and
\* the def statement binds the name `chat` to it.
DefChatRhymes ==
    /\ pc = "def_chat_rhymes"
    /\ routes' = routes @@ ("/chat_rhymes" :> "chat@55")
    /\ chat' = "chat@55"
    /\ pc' = "def_chat_sexy"
    /\ UNCHANGED <<configFile, MODEL_PATH, SYSTEM_PROMPT_RHYMES, SYSTEM_PROMPT_SEXY,
                   model, startup, arrived, tasks, lastResponse, nFailed>>

\* Lines 81-82: the second def rebinds `chat`; the route table keeps both.
DefChatSexy ==
    /\ pc = "def_chat_sexy"
    /\ routes' = routes @@ ("/chat_sexy" :> "chat@82")
    /\ chat' = "chat@82"
    /\ pc' = "main"
    /\ UNCHANGED <<configFile, MODEL_PATH, SYSTEM_PROMPT_RHYMES, SYSTEM_PROMPT_SEXY,
                   model, startup, arrived, tasks, lastResponse, nFailed>>

\* Lines 108-110: uvicorn.run(app, host="0.0.0.0", port=8000) binds and serves.
RunServer ==
    /\ pc = "main"
    /\ pc' = "serving"
    /\ startup' = Append(startup, "bind")
    /\ UNCHANGED <<configFile, MODEL_PATH, SYSTEM_PROMPT_RHYMES, SYSTEM_PROMPT_SEXY,
                   model, routes, chat, arrived, tasks, lastResponse, nFailed>>

-----------------------------------------------------------------------------

(* Requests and the model's possible behaviours                             *)

Paths == {"/chat_rhymes", "/chat_sexy", "/chat"}

\* JSON request bodies: with and without max_tokens, and one without prompt.
Bodies ==
    {[prompt |-> Str_Joke, max_tokens |-> 50],
     [prompt |-> Str_Joke],
     [prompt |-> Str_Hi],
     [max_tokens |-> 50]}

Text_Padded == <<"\n"," ","o"," ","k","\t"," ">>
Text_Plain  == <<"n","o">>
Text_Blank  == <<" ","\t">>

NoOutcome == [kind |-> "none", msg |-> <<>>, choices |-> <<>>]

\* What model(full_prompt, ...) can do: raise, or return a completion whose
\* "choices" list has zero, one or two entries.
Outcomes ==
    {[kind |-> "raise", msg |-> Str_Boom, choices |-> <<>>]}
    \cup {[kind |-> "return", msg |-> <<>>, choices |-> c] :
            c \in {<<>>, <<Text_Padded>>, <<Text_Padded, Text_Plain>>,
                   <<Text_Plain, Text_Padded>>, <<Text_Blank>>}}

-----------------------------------------------------------------------------
(* Pure parts of the handlers                                              *)

\* Line 46: the default of ChatRequest.max_tokens.
DefaultMaxTokens == 100

\* Lines 44-46: the body validates as a ChatRequest iff it has a prompt.
IsValidBody(body) == "prompt" \in DOMAIN body

\* Lines 44-46: ChatRequest built from the body, max_tokens defaulted.
ChatRequest(body) ==
    [prompt     |-> body.prompt,
     max_tokens |-> IF "max_tokens" \in DOMAIN body THEN body.max_tokens
                                                    ELSE DefaultMaxTokens]

\* Lines 58 and 85: the global each handler function reads.
SystemPromptOf(handler) ==
    IF handler = "chat@55" THEN SYSTEM_PROMPT_RHYMES ELSE SYSTEM_PROMPT_SEXY

\* Variant: the f-string without its leading "System: " label.
FullPromptNoLabel(system_prompt, prompt) ==
    system_prompt \o Lit_Human \o prompt \o Lit_Assistant

\* Lines 60-62 and 87-89: the f-string.
FullPrompt(system_prompt, prompt) ==
    Lit_System \o system_prompt \o Lit_Human \o prompt \o Lit_Assistant

\* Variant: the call passes the default instead of the request's max_tokens.
CallArgsFixed(full_prompt, request) ==
    [prompt     |-> full_prompt,
     max_tokens |-> DefaultMaxTokens,
     stop       |-> <<Lit_Stop>>,
     echo       |-> FALSE]

\* Lines 65-70 and 92-97: the arguments of the model call.
CallArgs(full_prompt, request) ==
    [prompt     |-> full_prompt,
     max_tokens |-> request.max_tokens,
     stop       |-> <<Lit_Stop>>,
     echo       |-> FALSE]

\* str.strip(): drop leading, then trailing, whitespace characters.
RECURSIVE LStrip(_)
LStrip(s) == IF s # <<>> /\ Head(s) \in Whitespace THEN LStrip(Tail(s)) ELSE s

RECURSIVE RStrip(_)
RStrip(s) ==
    IF s # <<>> /\ s[Len(s)] \in Whitespace THEN RStrip(SubSeq(s, 1, Len(s) - 1))
                                            ELSE s

Strip(s) == RStrip(LStrip(s))

\* Lines 73 and 100: response["choices"][0] raises IndexError on an empty list.
ExtractRaises(response) == response.choices = <<>>

\* Variant: the text is returned without .strip().
GeneratedTextNoStrip(response) == response.choices[1]

\* Lines 73 and 100: response["choices"][0]["text"].strip().
GeneratedText(response) == Strip(response.choices[1])

\* Lines 75 and 102: ChatResponse(text=generated_text), sent as HTTP 200.
OkResponse(generated_text) == [status |-> 200, text |-> generated_text]

\* Variant: the 500 carries a fixed detail instead of str(e).
ErrorResponseGeneric(msg) ==
    [status |-> 500,
     detail |-> <<"I","n","t","e","r","n","a","l"," ","S","e","r","v","e","r"," ",
                  "E","r","r","o","r">>]

\* Lines 77 and 104: HTTPException(status_code=500, detail=str(e)).
ErrorResponse(msg) == [status |-> 500, detail |-> msg]

\* Variant: a raising model call is tried again.
AfterModelCallRetry(outcome) == IF outcome.kind = "raise" THEN "built" ELSE "extract"

\* Lines 65-77: where control goes when the model call ends: to the except
\* clause if it raised, else on to the extraction.
AfterModelCall(outcome) == IF outcome.kind = "raise" THEN "except" ELSE "extract"

\* Variant: the path is served by whatever the name `chat` is bound to.
DispatchByName(path) == chat

\* Lines 54 and 81: the route table, filled by the decorators, decides which
\* function object serves a path.
Dispatch(path) == routes[path]

\* Handlers that have started and not yet returned or raised.
Running == {i \in DOMAIN tasks : tasks[i].st \in {"built", "in_call", "extract", "except"}}

\* Variant: handlers run on a thread pool, as plain `def` handlers would.
CanScheduleAlways == TRUE

\* Lines 55 and 82: both handlers are `async def` and contain no await, so
\* each runs on the event loop's single thread from start to end; the loop
\* starts the next handler only when none is running.
CanSchedule == Running = {}

\* Variant: a handler appends to the rhymes system prompt.
HandlerFrameAccumulate ==
    /\ SYSTEM_PROMPT_RHYMES' = SYSTEM_PROMPT_RHYMES \o Lit_Human
    /\ UNCHANGED <<MODEL_PATH, SYSTEM_PROMPT_SEXY, model>>

\* Lines 55-77 and 82-104: no handler assigns a module global.
HandlerFrame == UNCHANGED <<MODEL_PATH, SYSTEM_PROMPT_RHYMES, SYSTEM_PROMPT_SEXY, model>>

Remove(f, i) == [j \in DOMAIN f \ {i} |-> f[j]]

Responded(i, resp) ==
    [id |-> i, path |-> tasks[i].path, body |-> tasks[i].body,
     handler |-> tasks[i].handler, calls |-> tasks[i].calls,
     outcome |-> tasks[i].outcome, resp |-> resp]

-----------------------------------------------------------------------------
(* Serving: one action per step of a request                               *)

\* A request reaches the server and waits for the event loop.
Arrive(path, body) ==
    /\ pc = "serving"
    /\ arrived < MaxRequests
    /\ arrived' = arrived + 1
    /\ tasks' = tasks @@ ((arrived + 1) :>
                    [st |-> "pending", path |-> path, body |-> body, handler |-> "",
                     full_prompt |-> <<>>, calls |-> <<>>, outcome |-> NoOutcome,
                     exc |-> <<>>])
    /\ UNCHANGED <<pc, configFile, MODEL_PATH, SYSTEM_PROMPT_RHYMES, SYSTEM_PROMPT_SEXY, model,
                   routes, chat, startup, lastResponse, nFailed>>

\* No route matches the path: the framework answers 404, no handler runs.
NotFound(i) ==
    /\ pc = "serving" /\ CanSchedule
    /\ i \in DOMAIN tasks /\ tasks[i].st = "pending"
    /\ tasks[i].path \notin DOMAIN routes
    /\ lastResponse' = Responded(i, [status |-> 404, detail |-> Msg_NotFound])
    /\ tasks' = Remove(tasks, i)
    /\ UNCHANGED <<pc, configFile, MODEL_PATH, SYSTEM_PROMPT_RHYMES, SYSTEM_PROMPT_SEXY, model,
                   routes, chat, startup, arrived, nFailed>>

\* Lines 44-46, 55: the body is not a ChatRequest: 422, the handler is not called.
Unprocessable(i) ==
    /\ pc = "serving" /\ CanSchedule
    /\ i \in DOMAIN tasks /\ tasks[i].st = "pending"
    /\ tasks[i].path \in DOMAIN routes
    /\ ~IsValidBody(tasks[i].body)
    /\ lastResponse' = Responded(i, [status |-> 422, detail |-> Msg_Required])
    /\ tasks' = Remove(tasks, i)
    /\ UNCHANGED <<pc, configFile, MODEL_PATH, SYSTEM_PROMPT_RHYMES, SYSTEM_PROMPT_SEXY, model,
                   routes, chat, startup, arrived, nFailed>>

\* Lines 55-62 and 82-89: the handler starts and builds full_prompt.
StartHandler(i) ==
    /\ pc = "serving" /\ CanSchedule
    /\ i \in DOMAIN tasks /\ tasks[i].st = "pending"
    /\ tasks[i].path \in DOMAIN routes
    /\ IsValidBody(tasks[i].body)
    /\ LET handler == Dispatch(tasks[i].path)
           request == ChatRequest(tasks[i].body)
       IN  tasks' = [tasks EXCEPT ![i].st = "built",
                                  ![i].handler = handler,
                                  ![i].full_prompt =
                                      FullPrompt(SystemPromptOf(handler), request.prompt)]
    /\ UNCHANGED <<pc, configFile, routes, chat, startup, arrived, lastResponse, nFailed>>
    /\ HandlerFrame

\* Lines 65-70 and 92-97: the handler enters model(...).
CallModel(i) ==
    /\ pc = "serving"
    /\ i \in DOMAIN tasks /\ tasks[i].st = "built"
    /\ model = "Llama"
    /\ tasks' = [tasks EXCEPT ![i].st = "in_call",
                              ![i].calls = Append(@, CallArgs(tasks[i].full_prompt,
                                                              ChatRequest(tasks[i].body)))]
    /\ UNCHANGED <<pc, configFile, routes, chat, startup, arrived, lastResponse, nFailed>>
    /\ HandlerFrame

\* The model call ends, by returning a completion or by raising.
ModelReturns(i, outcome) ==
    /\ pc = "serving"
    /\ i \in DOMAIN tasks /\ tasks[i].st = "in_call"
    /\ tasks' = [tasks EXCEPT ![i].st = AfterModelCall(outcome),
                              ![i].outcome = outcome,
                              ![i].exc = outcome.msg]
    /\ UNCHANGED <<pc, configFile, routes, chat, startup, arrived, lastResponse, nFailed>>
    /\ HandlerFrame

\* Lines 73-75 and 100-102: extract the text and return it, or raise.
Extract(i) ==
    /\ pc = "serving"
    /\ i \in DOMAIN tasks /\ tasks[i].st = "extract"
    /\ IF ExtractRaises(tasks[i].outcome)
       THEN /\ tasks' = [tasks EXCEPT ![i].st = "except", ![i].exc = Msg_IndexError]
            /\ UNCHANGED lastResponse
       ELSE /\ lastResponse' = Responded(i, OkResponse(GeneratedText(tasks[i].outcome)))
            /\ tasks' = Remove(tasks, i)
    /\ UNCHANGED <<pc, configFile, routes, chat, startup, arrived, nFailed>>
    /\ HandlerFrame

\* Lines 76-77 and 103-104: the except clause answers 500.
Except(i) ==
    /\ pc = "serving"
    /\ i \in DOMAIN tasks /\ tasks[i].st = "except"
    /\ lastResponse' = Responded(i, ErrorResponse(tasks[i].exc))
    /\ tasks' = Remove(tasks, i)
    /\ nFailed' = nFailed + 1
    /\ UNCHANGED <<pc, configFile, routes, chat, startup, arrived>>
    /\ HandlerFrame

-----------------------------------------------------------------------------

NoResponse ==
    [id |-> 0, path |-> "", body |-> <<>>, handler |-> "", calls |-> <<>>,
     outcome |-> NoOutcome, resp |-> [status |-> 0]]

Init ==
    /\ pc = "load_config"
    /\ configFile \in ConfigFiles
    /\ MODEL_PATH = Unbound
    /\ SYSTEM_PROMPT_RHYMES = Unbound
    /\ SYSTEM_PROMPT_SEXY = Unbound
    /\ model = "unbound"
    /\ routes = [p \in {} |-> ""]
    /\ chat = "unbound"
    /\ startup = <<>>
    /\ arrived = 0
    /\ tasks = [i \in {} |-> 0]
    /\ lastResponse = NoResponse
    /\ nFailed = 0

Ids == 1..MaxRequests

Next ==
    \/ LoadConfig
    \/ LoadModel
    \/ DefChatRhymes
    \/ DefChatSexy
    \/ RunServer
    \/ \E path \in Paths, body \in Bodies : Arrive(path, body)
    \/ \E i \in Ids : NotFound(i)
    \/ \E i \in Ids : Unprocessable(i)
    \/ \E i \in Ids : StartHandler(i)
    \/ \E i \in Ids : CallModel(i)
    \/ \E i \in Ids, outcome \in Outcomes : ModelReturns(i, outcome)
    \/ \E i \in Ids : Extract(i)
    \/ \E i \in Ids : Except(i)

Spec == Init /\ [][Next]_vars

-----------------------------------------------------------------------------
(* Properties                                                              *)

\* Every model call made so far that the state still records, with the
\* request it was made for: those of the handlers in progress and those of
\* the request answered last.
Made ==
    UNION {{[path |-> tasks[i].path, body |-> tasks[i].body, call |-> tasks[i].calls[k]] :
              k \in 1..Len(tasks[i].calls)} : i \in DOMAIN tasks}
    \cup {[path |-> lastResponse.path, body |-> lastResponse.body,
           call |-> lastResponse.calls[k]] : k \in 1..Len(lastResponse.calls)}

\* The config key that holds an endpoint's system prompt.
KeyOf(path) ==
    IF path = "/chat_rhymes" THEN "system_prompt_rhymes" ELSE "system_prompt_sexy"

InCall == {i \in DOMAIN tasks : tasks[i].st = "in_call"}

\* C1: every prompt passed to the model is "System: " + S + "\n\nHuman: " + P +
\* "\n\nAssistant:", P the request's prompt and S the system prompt that
\* config.yaml gives for the endpoint that received the request.
C1_PromptOfEndpoint ==
    \A m \in Made :
        /\ m.path \in {"/chat_rhymes", "/chat_sexy"}
        /\ m.call.prompt =
             <<"S","y","s","t","e","m",":"," ">> \o configFile.data[KeyOf(m.path)]
             \o <<"\n","\n","H","u","m","a","n",":"," ">> \o m.body.prompt
             \o <<"\n","\n","A","s","s","i","s","t","a","n","t",":">>

\* A /chat_rhymes request was answered after its model call while a
\* /chat_sexy request is inside its own.
C1_Witness ==
    /\ lastResponse.path = "/chat_rhymes" /\ lastResponse.calls # <<>>
    /\ \E i \in InCall : tasks[i].path = "/chat_sexy"

\* t is s without its leading and trailing whitespace.
IsTrimOf(t, s) ==
    \E a, b \in 0..Len(s) :
        /\ a + b <= Len(s)
        /\ t = SubSeq(s, a + 1, Len(s) - b)
        /\ \A k \in 1..a : s[k] \in {" ", "\t", "\n", "\r", "\f"}
        /\ \A k \in (Len(s) - b + 1)..Len(s) : s[k] \in {" ", "\t", "\n", "\r", "\f"}
        /\ t # <<>> => /\ t[1] \notin {" ", "\t", "\n", "\r", "\f"}
                       /\ t[Len(t)] \notin {" ", "\t", "\n", "\r", "\f"}

\* C2: when the model call returned at least one choice, the answer is HTTP 200
\* and its text is the first choice's text without leading and trailing
\* whitespace.
C2_FirstChoiceStripped ==
    (lastResponse.outcome.kind = "return" /\ lastResponse.outcome.choices # <<>>)
        => /\ DOMAIN lastResponse.resp = {"status", "text"}
           /\ lastResponse.resp.status = 200
           /\ IsTrimOf(lastResponse.resp.text, lastResponse.outcome.choices[1])

\* Two choices came back, the first padded with whitespace on both sides.
C2_Witness ==
    /\ lastResponse.outcome.choices = <<Text_Padded, Text_Plain>>
    /\ lastResponse.resp.status = 200
    /\ lastResponse.resp.text = <<"o"," ","k">>

\* C3: every model call has max_tokens equal to the body's max_tokens, or 100
\* when the body has none, stop = ["Human:"] and echo = false.
C3_CallParameters ==
    \A m \in Made :
        /\ m.call.max_tokens =
             IF "max_tokens" \in DOMAIN m.body THEN m.body.max_tokens ELSE 100
        /\ m.call.stop = << <<"H","u","m","a","n",":">> >>
        /\ m.call.echo = FALSE

\* One request with max_tokens = 50 was served and one without is in its call.
C3_Witness ==
    /\ lastResponse.calls # <<>> /\ "max_tokens" \in DOMAIN lastResponse.body
    /\ lastResponse.calls[1].max_tokens = 50
    /\ \E i \in InCall : /\ "max_tokens" \notin DOMAIN tasks[i].body
                         /\ tasks[i].calls[1].max_tokens = 100

ExampleBody == [prompt |-> Str_Joke, max_tokens |-> 50]

ExampleCall ==
    [prompt |-> <<"S","y","s","t","e","m",":"," ","Y","o","u"," ","a","r","e"," ",
                  "h","e","l","p","f","u","l",".","\n","\n","H","u","m","a","n",":"," ",
                  "T","e","l","l"," ","m","e"," ","a"," ","j","o","k","e","\n","\n",
                  "A","s","s","i","s","t","a","n","t",":">>,
     max_tokens |-> 50,
     stop |-> << <<"H","u","m","a","n",":">> >>,
     echo |-> FALSE]

\* C4 as stated: the example request sent to /chat, with system_prompt =
\* "You are helpful." in config.yaml, is answered after one model call with the
\* example's prompt, stop, max_tokens and echo.
C4_ChatRoute ==
    (/\ lastResponse.path = "/chat"
     /\ lastResponse.body = ExampleBody
     /\ HasKey(configFile, "system_prompt")
     /\ configFile.data["system_prompt"] = Str_Helpful)
        => lastResponse.calls = <<ExampleCall>>

\* C4 as amended: the example request sent to /chat_rhymes, with
\* system_prompt_rhymes = "You are helpful.", makes exactly the example's
\* model call; a request to /chat is answered 404 and never reaches the model.
C4_ChatRhymesExample ==
    /\ (/\ lastResponse.path = "/chat_rhymes"
        /\ lastResponse.body = ExampleBody
        /\ configFile.data["system_prompt_rhymes"] = Str_Helpful)
           => lastResponse.calls = <<ExampleCall>>
    /\ lastResponse.path = "/chat"
           => /\ lastResponse.resp.status = 404
              /\ lastResponse.calls = <<>>
    /\ \A i \in DOMAIN tasks : tasks[i].path = "/chat" => tasks[i].st = "pending"

\* The example request was served on /chat_rhymes under a config file that
\* also has the key system_prompt, and a request to /chat is waiting.
C4_Witness ==
    /\ lastResponse.path = "/chat_rhymes"
    /\ lastResponse.body = ExampleBody
    /\ HasKey(configFile, "system_prompt")
    /\ \E i \in DOMAIN tasks : tasks[i].path = "/chat"

RequiredKeys == {"model_path", "system_prompt_rhymes", "system_prompt_sexy"}

ConfigComplete == \A k \in RequiredKeys : HasKey(configFile, k)

\* The server is listening, or some request exists or was answered.
Listening ==
    \/ pc = "serving"
    \/ \E k \in 1..Len(startup) : startup[k] = "bind"
    \/ arrived > 0 \/ DOMAIN tasks # {} \/ lastResponse.id # 0

\* C5: the server listens only after the config block extracted all three
\* keys; with a config file that is absent, unparsable or lacks a key, the
\* process has exited once the config block is over, with no model load and no
\* bind.
C5_ConfigFailureExits ==
    /\ Listening =>
         /\ ConfigComplete
         /\ startup[1] = "config"
         /\ MODEL_PATH = configFile.data["model_path"]
         /\ SYSTEM_PROMPT_RHYMES = configFile.data["system_prompt_rhymes"]
         /\ SYSTEM_PROMPT_SEXY = configFile.data["system_prompt_sexy"]
    /\ (~ConfigComplete /\ pc # "load_config") =>
         /\ pc = "exited"
         /\ startup = <<"config_failed">>
         /\ model = "unbound"

\* The file has model_path and system_prompt_rhymes but not system_prompt_sexy:
\* two names were assigned, then the process exited.
C5_Witness ==
    /\ pc = "exited"
    /\ startup = <<"config_failed">>
    /\ HasKey(configFile, "system_prompt_rhymes")
    /\ MODEL_PATH # Unbound /\ SYSTEM_PROMPT_RHYMES # Unbound
    /\ SYSTEM_PROMPT_SEXY = Unbound

IsPrefix(s, t) == Len(s) <= Len(t) /\ s = SubSeq(t, 1, Len(s))

\* C6: startup runs config load, model load, bind in that order; the server
\* listens only with a model instance; a failed model load ends the process
\* with no bind.
C6_ModelFailureExits ==
    /\ \/ IsPrefix(startup, <<"config", "model", "bind">>)
       \/ startup \in {<<"config_failed">>, <<"config", "model_failed">>}
    /\ Listening => (model = "Llama" /\ startup = <<"config", "model", "bind">>)
    /\ (Len(startup) >= 2 /\ startup[2] = "model_failed") =>
         (pc = "exited" /\ model = "unbound" /\ DOMAIN routes = {})
    /\ \A i \in DOMAIN tasks : tasks[i].st # "pending" => model = "Llama"

\* The config loaded, the model load raised, the process exited.
C6_Witness ==
    /\ pc = "exited"
    /\ startup = <<"config", "model_failed">>

\* C7: a raising model call is answered 500 with the error's message as
\* detail, an empty choices list is answered 500 with IndexError's message,
\* and after failed requests the process still serves: a request whose model
\* call then returns a choice is answered 200 with a text.
C7_FailureIs500AndServerLives ==
    /\ lastResponse.outcome.kind = "raise" =>
         lastResponse.resp = [status |-> 500, detail |-> lastResponse.outcome.msg]
    /\ (lastResponse.outcome.kind = "return" /\ lastResponse.outcome.choices = <<>>) =>
         lastResponse.resp =
            [status |-> 500,
             detail |-> <<"l","i","s","t"," ","i","n","d","e","x"," ","o","u","t"," ",
                          "o","f"," ","r","a","n","g","e">>]
    /\ nFailed > 0 => pc = "serving"
    /\ (/\ nFailed > 0
        /\ lastResponse.outcome.kind = "return"
        /\ lastResponse.outcome.choices # <<>>) =>
         (lastResponse.resp.status = 200 /\ "text" \in DOMAIN lastResponse.resp)
    /\ nFailed = 0 => lastResponse.resp.status # 500

\* A request failed with 500 and a later one was answered 200.
C7_Witness ==
    /\ nFailed > 0
    /\ lastResponse.id = 2
    /\ lastResponse.resp.status = 200

\* C8: a request whose handler ran made exactly one model call, a handler in
\* progress has made at most one, and the answer to a request whose model call
\* raised, or whose result had no choice, has no text field.
C8_OneCallNoPartialOutput ==
    /\ lastResponse.handler # "" => Len(lastResponse.calls) = 1
    /\ lastResponse.handler = "" => lastResponse.calls = <<>>
    /\ \A i \in DOMAIN tasks :
         Len(tasks[i].calls) =
            IF tasks[i].st \in {"in_call", "extract", "except"} THEN 1 ELSE 0
    /\ (\/ lastResponse.outcome.kind = "raise"
        \/ (lastResponse.outcome.kind = "return" /\ lastResponse.outcome.choices = <<>>))
          => DOMAIN lastResponse.resp = {"status", "detail"}

\* The model call raised and the request was answered.
C8_Witness ==
    /\ lastResponse.outcome.kind = "raise"
    /\ Len(lastResponse.calls) = 1
    /\ lastResponse.resp.status = 500

\* C9: while serving, no step changes the loaded configuration, the model
\* reference or the route table, and a request in progress gets the same
\* prompt and model parameters as the same request answered before it.
C9_Stateless ==
    /\ [][pc = "serving" =>
            UNCHANGED <<pc, configFile, MODEL_PATH, SYSTEM_PROMPT_RHYMES,
                        SYSTEM_PROMPT_SEXY, model, routes, chat>>]_vars
    /\ [](\A i \in DOMAIN tasks :
            (/\ tasks[i].calls # <<>>
             /\ lastResponse.calls # <<>>
             /\ tasks[i].path = lastResponse.path
             /\ tasks[i].body = lastResponse.body)
                => tasks[i].calls = lastResponse.calls)

\* A request failed, and the same request sent again is inside its model call
\* with the globals still holding the file's values.
C9_Witness ==
    /\ nFailed > 0
    /\ \E i \in InCall : /\ tasks[i].path = lastResponse.path
                         /\ tasks[i].body = lastResponse.body
    /\ SYSTEM_PROMPT_RHYMES = configFile.data["system_prompt_rhymes"]
    /\ SYSTEM_PROMPT_SEXY = configFile.data["system_prompt_sexy"]

\* C10: at most one handler is inside the model call, and while one is, every
\* other request is still waiting to be started.
C10_NoOverlap ==
    /\ Cardinality(InCall) <= 1
    /\ Cardinality(Running) <= 1
    /\ \A i \in InCall : \A j \in DOMAIN tasks \ {i} : tasks[j].st = "pending"

\* One handler is inside the model call and a request to the other endpoint,
\* valid and routable, is waiting.
C10_Witness ==
    \E i \in InCall : \E j \in DOMAIN tasks \ {i} :
        /\ tasks[j].st = "pending"
        /\ tasks[j].path \in DOMAIN routes
        /\ tasks[j].path # tasks[i].path
        /\ IsValidBody(tasks[j].body)

=============================================================================
